---- MODULE Spec2Model ----
(***************************************************************************)
(* Model of package logger (logger.go): NewLogger, generatePrefix and the  *)
(* five severity writers (log.Logger values) sharing one io.MultiWriter.    *)
(*                                                                         *)
(* Text is modelled by TLA+ strings, built by concatenation exactly as the *)
(* Go code builds it.  A path is the sequence of its components.  The      *)
(* clock counts seconds since 2026-10-29 00:00:00.  A sink (os.Stdout or   *)
(* an *os.File) holds the sequence of the buffers handed to its Write      *)
(* method; os.File.Write appends one buffer atomically (fd write lock,     *)
(* O_APPEND).  Writes to a sink succeed; the construction-time failures    *)
(* that the code branches on (Getwd, MkdirAll, OpenFile) are environment   *)
(* choices.  The clock may move while NewLogger runs: each of its five     *)
(* generatePrefix calls reads the clock for itself.  A log call reads the  *)
(* clock and builds its line before it waits for the writer's mutex.       *)
(***************************************************************************)
EXTENDS Integers, Sequences, FiniteSets, TLC

VARIABLES now, dirs, files, console, loggers, last, th, outMu, calls, initFiles

vars == <<now, dirs, files, console, loggers, last, th, outMu, calls, initFiles>>

(* ------------------------------ bounds --------------------------------- *)
NumThreads == 2
MaxCalls == 2
MaxTicks == 1
MaxNew == 1
MaxLoggers == 2
MaxFileCalls == 2

(* --------------------------- program constants ------------------------- *)
DateTime == 1
Loglevel == 2
ShortFileName == 4
LongFileName == 8

\* flags of package log used by the nil-config branch
Ldate == 1
Ltime == 2
Llongfile == 8
Lshortfile == 16
Lmsgprefix == 64
LstdFlags == Ldate + Ltime
\* log.Lmsgprefix | log.LstdFlags | log.Lshortfile
NilFlag == Lmsgprefix + LstdFlags + Lshortfile

Levels == {"DEBUG", "INFO", "WARN", "ERROR", "TRACE"}

\* syntax&flag != 0 for a one-bit flag
Has(syntax, flag) == (syntax \div flag) % 2 = 1

(* ------------------------------- inputs -------------------------------- *)
Threads == 1..NumThreads
StartClock == 86398
AllSyntax == 0..15
\* the formats the logging runs are built with
SomeSyntax == {Loglevel, DateTime + Loglevel + ShortFileName}
FileSyntax == {Loglevel + ShortFileName}
\* what the environment lets a construction do
Envs == {"ok", "getwd fails", "mkdir fails", "open fails"}
Stdout == <<"stdout">>
Wd == <<"srv", "app">>
Directories == {<<>>, <<"logs">>}
Filenames == {<<>>, <<"app.log">>}
Nil == [nil |-> TRUE]
Configs(syntaxes, directories, filenames) ==
  {Nil} \cup
  [nil : {FALSE}, Directory : directories, Filename : filenames,
   Stdout : BOOLEAN, Include : syntaxes]

LoggerFile == <<"go", "logger", "logger.go">>
LogFile == <<"go", "log", "log.go">>
Frame(f, n) == [file |-> f, line |-> n]
\* the goroutine stack above NewLogger: the user's call of NewLogger in
\* main.main, called by runtime.main
NewLoggerCallers ==
  {<<Frame(<<"srv", "app", "main.go">>, 12), Frame(<<"go", "runtime", "proc.go">>, 271)>>}
\* each thread logs from its own place in the user's code
LogSite(t) ==
  IF t = 1 THEN Frame(<<"srv", "app", "main.go">>, 20)
  ELSE Frame(<<"srv", "app", "worker.go">>, 7 + t)
Msg(t) == IF t = 1 THEN "started" ELSE "job " \o ToString(t)
\* the writers each thread logs through; both use ERROR
ThreadLevels(t) ==
  IF t = 1 THEN {"INFO", "ERROR"} ELSE {"ERROR", "TRACE"}

(* ------------------------- time and path text -------------------------- *)
Pad2(n) == IF n < 10 THEN "0" \o ToString(n) ELSE ToString(n)

ClockText(t) ==
  Pad2((t \div 3600) % 24) \o ":" \o Pad2((t \div 60) % 60) \o ":" \o Pad2(t % 60)

\* time.Time.Format("2006-01-02 15:04:05")
FormatDateTime(t) == "2026-10-" \o Pad2(29 + t \div 86400) \o " " \o ClockText(t)

\* package log's Ldate header: "2006/01/02"
StdDate(t) == "2026/10/" \o Pad2(29 + t \div 86400)

RECURSIVE PathString(_)
PathString(p) ==
  IF p = <<>> THEN "" ELSE PathString(SubSeq(p, 1, Len(p) - 1)) \o "/" \o p[Len(p)]

\* filepath.Base of an absolute slash-separated path
Base(p) == IF p = <<>> THEN "/" ELSE p[Len(p)]

\* filepath.Dir
Dir(p) == IF p = <<>> THEN <<>> ELSE SubSeq(p, 1, Len(p) - 1)

\* filepath.Join: empty elements are ignored
Join(a, b, c) == a \o b \o c

\* runtime.Caller(skip) on a stack listed from the innermost frame
Caller(stack, skip) ==
  IF skip + 1 <= Len(stack)
  THEN [file |-> stack[skip + 1].file, line |-> stack[skip + 1].line, ok |-> TRUE]
  ELSE [file |-> <<>>, line |-> 0, ok |-> FALSE]

(* ---------------------------- generatePrefix --------------------------- *)
CallerSkip == 2

\* a variant in which LongFileName wins over ShortFileName
FileTextLongWins(syntax, file) ==
  IF Has(syntax, LongFileName) THEN PathString(file) ELSE Base(file)

FileText(syntax, file) ==
  IF Has(syntax, ShortFileName) THEN Base(file) ELSE PathString(file)

\* stack: the goroutine's frames with generatePrefix innermost; t: what
\* time.Now() returns to this call
generatePrefix(syntax, level, t, stack) ==
  LET p1 == IF Has(syntax, DateTime) THEN FormatDateTime(t) \o " " ELSE ""
      p2 == IF Has(syntax, Loglevel) THEN p1 \o level \o " " ELSE p1
      c  == Caller(stack, CallerSkip)
  IN  IF Has(syntax, ShortFileName) \/ Has(syntax, LongFileName)
      THEN IF c.ok
           THEN p2 \o FileText(syntax, c.file) \o ":" \o ToString(c.line) \o " "
           ELSE p2
      ELSE p2

\* the line of NewLogger that calls generatePrefix for a level
NewLoggerLine(level) ==
  CASE level = "INFO" -> 95
    [] level = "WARN" -> 96
    [] level = "ERROR" -> 97
    [] level = "DEBUG" -> 98
    [] level = "TRACE" -> 99

\* the order in which NewLogger builds the five prefixes
ReadOrder == <<"INFO", "WARN", "ERROR", "DEBUG", "TRACE">>

PrefixStack(level, callers) ==
  <<Frame(LoggerFile, 132), Frame(LoggerFile, NewLoggerLine(level))>> \o callers

(* ------------------------------ NewLogger ------------------------------ *)
ErrGetwd == "getwd: no such file or directory"
ErrFilename == "filename is required"
ErrMkdir == "mkdir: permission denied"
ErrOpen == "open: permission denied"

Ancestors(p) == {SubSeq(p, 1, k) : k \in 0..Len(p)}

\* os.MkdirAll(dir, 0755), when it succeeds
MkdirAll(ds, dir) == ds \cup Ancestors(dir)

\* a variant that opens with O_TRUNC
OpenFileTrunc(fs, path) == (path :> <<>>) @@ fs

\* os.OpenFile(path, O_APPEND|O_CREATE|O_WRONLY, 0644), when it succeeds:
\* the file is created empty if absent and left as it is if present
OpenFile(fs, path) == IF path \in DOMAIN fs THEN fs ELSE (path :> <<>>) @@ fs

\* variants: the console is never, or always, one of the writers
WritersFileOnly(stdout, path) == <<path>>
WritersBoth(stdout, path) == <<Stdout, path>>

\* the writers handed to io.MultiWriter for a non-nil config
Writers(stdout, path) == IF stdout THEN <<Stdout, path>> ELSE <<path>>

None == [none |-> TRUE]

\* NewLogger(config) called with the caller frames `callers`, in the file
\* system (ds, fs); env says which of os.Getwd, os.MkdirAll (of a missing
\* directory) and os.OpenFile the environment lets succeed; ts[lv] is what
\* time.Now() returns to the generatePrefix call for level lv.
\* Returns the (*Logger, error) pair and the file system it leaves.
NewLoggerResult(config, callers, ts, env, ds, fs) ==
  LET fail(e, ds2) == [logger |-> None, err |-> e, dirs |-> ds2, files |-> fs]
  IN  IF env = "getwd fails" THEN fail(ErrGetwd, ds)
      ELSE IF ~config.nil
      THEN IF config.Filename = <<>> THEN fail(ErrFilename, ds)
           ELSE LET path == Join(Wd, config.Directory, config.Filename)
                IN  IF Dir(path) \notin ds /\ env = "mkdir fails"
                    THEN fail(ErrMkdir, ds)
                    ELSE IF env = "open fails"
                    THEN fail(ErrOpen, MkdirAll(ds, Dir(path)))
                    ELSE [logger |->
                            [out |-> Writers(config.Stdout, path),
                             prefix |-> [lv \in Levels |->
                                generatePrefix(config.Include, lv, ts[lv],
                                               PrefixStack(lv, callers))],
                             flag |-> 0,
                             config |-> config, read |-> ts, callers |-> callers],
                          err |-> "",
                          dirs |-> MkdirAll(ds, Dir(path)),
                          files |-> OpenFile(fs, path)]
      ELSE [logger |->
              [out |-> <<Stdout>>,
               prefix |-> [lv \in Levels |-> lv \o " "],
               flag |-> NilFlag,
               config |-> config, read |-> ts, callers |-> callers],
            err |-> "", dirs |-> ds, files |-> fs]

\* NewLogger reads the clock: the config asks for DateTime and the
\* construction gets as far as the prefixes
ReadsClock(config, callers, env, ds, fs) ==
  /\ ~config.nil
  /\ Has(config.Include, DateTime)
  /\ NewLoggerResult(config, callers, [lv \in Levels |-> 0], env, ds, fs).logger # None

(* --------------------------- a severity writer ------------------------- *)
\* fmt.Sprintln of one string operand
Sprintln(m) == m \o "\n"

\* a variant that builds the prefix again at each log call
WriterPrefixNow(l, lv, t) ==
  IF l.config.nil THEN l.prefix[lv]
  ELSE generatePrefix(l.config.Include, lv, t, PrefixStack(lv, l.callers))

\* the prefix log.New bound the lv writer to when the Logger was built
WriterPrefix(l, lv, t) == l.prefix[lv]

\* log.Logger.formatHeader at time t; stack has Output innermost
OutputHeader(l, lv, t, stack) ==
  LET pre  == WriterPrefix(l, lv, t)
      c    == Caller(stack, 2)
      file == IF c.ok THEN c.file ELSE <<"???">>
      h0 == IF Has(l.flag, Lmsgprefix) THEN "" ELSE pre
      h1 == IF Has(l.flag, Ldate) THEN h0 \o StdDate(t) \o " " ELSE h0
      h2 == IF Has(l.flag, Ltime) THEN h1 \o ClockText(t) \o " " ELSE h1
      h3 == IF Has(l.flag, Lshortfile) \/ Has(l.flag, Llongfile)
            THEN h2 \o (IF Has(l.flag, Lshortfile) THEN Base(file) ELSE PathString(file))
                    \o ":" \o ToString(c.line) \o ": "
            ELSE h2
  IN  IF Has(l.flag, Lmsgprefix) THEN h3 \o pre ELSE h3

\* a variant that writes the header and the message one after the other
OutputWritesSplit(header, s) == <<header, s>>

\* the buffers one log call hands to the writer's Write method: header and
\* message in one buffer
OutputWrites(header, s) == <<header \o s>>

\* io.MultiWriter.Write: the buffer goes to each writer in turn
MultiWrite(out, buf) == [i \in 1..Len(out) |-> [sink |-> out[i], text |-> buf]]

RECURSIVE Flatten(_)
Flatten(ss) == IF ss = <<>> THEN <<>> ELSE Head(ss) \o Flatten(Tail(ss))

LogStack(t) ==
  <<Frame(LogFile, 246), Frame(LogFile, 282), LogSite(t),
    Frame(<<"go", "runtime", "proc.go">>, 271)>>

(* ------------------------------- state --------------------------------- *)
OldLine == [text |-> "old line\n", call |-> 0]
LogPath == Join(Wd, <<"logs">>, <<"app.log">>)
NoFiles == [p \in {} |-> <<>>]
Idle == [pc |-> "idle", lg |-> 0, lv |-> "", call |-> 0, todo |-> <<>>]

Init ==
  /\ now = StartClock
  /\ \/ initFiles = NoFiles /\ dirs = Ancestors(Wd)
     \/ initFiles = (LogPath :> <<OldLine>>) /\ dirs = Ancestors(Dir(LogPath))
  /\ files = initFiles
  /\ console = <<>>
  /\ loggers = <<>>
  /\ last = [n |-> 0, config |-> Nil, env |-> "ok", logger |-> 0,
             err |-> "", dirs0 |-> dirs, files0 |-> DOMAIN files]
  /\ th = [t \in Threads |-> Idle]
  /\ outMu = {}
  /\ calls = <<>>

MaxClock == StartClock + MaxTicks

\* what five successive clock readings, none before t0, can return
Readings(t0) ==
  {[lv \in Levels |-> ts[CHOOSE k \in 1..5 : ReadOrder[k] = lv]] :
     ts \in {r \in [1..5 -> t0..MaxClock] : \A k \in 1..4 : r[k] <= r[k + 1]}}

\* the clock readings of one NewLogger call that starts at t0
ClockReads(t0, config, callers, env, ds, fs) ==
  IF ReadsClock(config, callers, env, ds, fs) THEN Readings(t0)
  ELSE {[lv \in Levels |-> t0]}

Tick ==
  /\ now < MaxClock
  /\ now' = now + 1
  /\ UNCHANGED <<dirs, files, console, loggers, last, th, outMu, calls, initFiles>>

\* the program calls NewLogger(config) and keeps the Logger it returns; the
\* clock stands at the last reading when the call returns
NewLogger(config, callers, env, ts, max) ==
  LET r == NewLoggerResult(config, callers, ts, env, dirs, files)
  IN  /\ last.n < max
      /\ now' = ts["TRACE"]
      /\ dirs' = r.dirs
      /\ files' = r.files
      /\ loggers' = IF r.logger = None THEN loggers ELSE Append(loggers, r.logger)
      /\ last' = [n |-> last.n + 1, config |-> config, env |-> env,
                  logger |-> IF r.logger = None THEN 0 ELSE Len(loggers) + 1,
                  err |-> r.err, dirs0 |-> dirs, files0 |-> DOMAIN files]
      /\ UNCHANGED <<console, th, outMu, calls, initFiles>>

\* a variant without the writer's mutex
MuFreeAlways(w) == TRUE

\* the writer's mutex is free
MuFree(w) == w \notin outMu

\* thread t calls Println(Msg(t)) on the lv writer of Logger lg: the clock
\* is read and the line formatted
LogCall(t, lg, lv, max) ==
  /\ th[t].pc = "idle"
  /\ Len(calls) < max
  /\ lg \in 1..Len(loggers)
  /\ LET header == OutputHeader(loggers[lg], lv, now, LogStack(t))
         bufs == OutputWrites(header, Sprintln(Msg(t)))
         id == Len(calls) + 1
     IN  /\ calls' = Append(calls, [thread |-> t, lg |-> lg, lv |-> lv, at |-> now,
                                    site |-> LogSite(t), msg |-> Msg(t)])
         /\ th' = [th EXCEPT ![t] =
                     [pc |-> "lock", lg |-> lg, lv |-> lv, call |-> id,
                      todo |-> Flatten([i \in 1..Len(bufs) |->
                                 MultiWrite(loggers[lg].out, bufs[i])])]]
  /\ UNCHANGED <<now, dirs, files, console, loggers, last, outMu, initFiles>>

\* the thread takes the writer's mutex, waiting while another holds it
Lock(t) ==
  /\ th[t].pc = "lock"
  /\ MuFree(<<th[t].lg, th[t].lv>>)
  /\ outMu' = outMu \cup {<<th[t].lg, th[t].lv>>}
  /\ th' = [th EXCEPT ![t].pc = "write"]
  /\ UNCHANGED <<now, dirs, files, console, loggers, last, calls, initFiles>>

\* one Write of a sink, os.Stdout or the log file; after the last one the
\* call returns and the mutex is released
Write(t) ==
  /\ th[t].pc = "write"
  /\ LET w == Head(th[t].todo)
         chunk == [text |-> w.text, call |-> th[t].call]
     IN  IF w.sink = Stdout
         THEN console' = Append(console, chunk) /\ files' = files
         ELSE files' = [files EXCEPT ![w.sink] = Append(@, chunk)]
              /\ console' = console
  /\ IF Len(th[t].todo) = 1
     THEN /\ th' = [th EXCEPT ![t] = Idle]
          /\ outMu' = outMu \ {<<th[t].lg, th[t].lv>>}
     ELSE /\ th' = [th EXCEPT ![t].todo = Tail(@)]
          /\ outMu' = outMu
  /\ UNCHANGED <<now, dirs, loggers, last, calls, initFiles>>

Construct(configs, envs, max) ==
  /\ last.n < max
  /\ \E config \in configs, callers \in NewLoggerCallers, env \in envs :
      \E ts \in ClockReads(now, config, callers, env, dirs, files) :
        NewLogger(config, callers, env, ts, max)

Log(threads, max) ==
  \E t \in threads : \E lg \in 1..Len(loggers) : \E lv \in ThreadLevels(t) :
    LogCall(t, lg, lv, max)

(* ----------------------------- specifications -------------------------- *)
\* Spec: one Logger has been constructed; the threads log through it.
InitLog ==
  /\ \/ initFiles = NoFiles
     \/ initFiles = (LogPath :> <<OldLine>>)
  /\ console = <<>>
  /\ th = [t \in Threads |-> Idle]
  /\ outMu = {}
  /\ calls = <<>>
  /\ \E config \in Configs(SomeSyntax, {<<"logs">>}, {<<"app.log">>}), callers \in NewLoggerCallers :
       LET ds == IF initFiles = NoFiles THEN Ancestors(Wd) ELSE Ancestors(Dir(LogPath))
       IN  \E ts \in ClockReads(StartClock, config, callers, "ok", ds, initFiles) :
           LET r == NewLoggerResult(config, callers, ts, "ok", ds, initFiles)
           IN
           /\ now = ts["TRACE"]
           /\ dirs = r.dirs
           /\ files = r.files
           /\ loggers = <<r.logger>>
           /\ last = [n |-> 1, config |-> config, env |-> "ok", logger |-> 1,
                      err |-> r.err, dirs0 |-> ds, files0 |-> DOMAIN initFiles]

Next ==
  \/ Tick
  \/ Log(Threads, MaxCalls)
  \/ \E t \in Threads : Lock(t)
  \/ \E t \in Threads : Write(t)

Spec == InitLog /\ [][Next]_vars

\* SpecNew: construction alone, over every format and every failure.
NewConfigs ==
  Configs(AllSyntax, {<<"logs">>}, {<<"app.log">>})
    \cup Configs({DateTime + Loglevel}, Directories, Filenames)

NextNew ==
  \/ Tick
  \/ Construct(NewConfigs, Envs, MaxNew)

SpecNew == Init /\ [][NextNew]_vars

\* SpecFile: one thread constructs Loggers on the same path again and again
\* and logs through any of them.
NextFile ==
  \/ Construct(Configs(FileSyntax, {<<"logs">>}, {<<"app.log">>}), {"ok", "open fails"}, MaxLoggers)
  \/ Log({1}, MaxFileCalls)
  \/ Lock(1)
  \/ Write(1)

SpecFile == Init /\ [][NextFile]_vars

(* ------------------------------- claims -------------------------------- *)
\* a segment followed by one space, or nothing
Seg(present, text) == IF present THEN text \o " " ELSE ""

Built(l) == ~l.config.nil

\* the frame that called NewLogger
Site(l) == l.callers[1]

\* C1: for each of the 16 flag combinations and each level, the prefix that
\* generatePrefix returned is the timestamp, the level and file:line, in that
\* order, each present exactly when its flag is set and each followed by one
\* space; it is empty when no flag is set; with ShortFileName and
\* LongFileName both set the file is the basename.
C1_PrefixIsConcatenation ==
  \A i \in 1..Len(loggers) : Built(loggers[i]) =>
    \A lv \in Levels :
      LET l == loggers[i]
          syn == l.config.Include
          short == Has(syn, ShortFileName)
          long == Has(syn, LongFileName)
          file == IF short THEN Base(Site(l).file) ELSE PathString(Site(l).file)
      IN  /\ l.prefix[lv] =
               Seg(Has(syn, DateTime), FormatDateTime(l.read[lv]))
               \o Seg(Has(syn, Loglevel), lv)
               \o Seg(short \/ long, file \o ":" \o ToString(Site(l).line))
          /\ syn = 0 => l.prefix[lv] = ""
          /\ syn = DateTime + Loglevel + ShortFileName + LongFileName =>
               l.prefix[lv] = FormatDateTime(l.read[lv]) \o " " \o lv \o " main.go:12 "

\* a Logger was built with all four flags set while the clock moved
C1_Witness ==
  \E i \in 1..Len(loggers) :
    /\ Built(loggers[i])
    /\ loggers[i].config.Include = 15
    /\ loggers[i].prefix["INFO"] = "2026-10-29 23:59:58 INFO main.go:12 "
    /\ loggers[i].prefix["TRACE"] = "2026-10-29 23:59:59 TRACE main.go:12 "

\* C2: NewLogger(nil) never fails, whatever the environment: it returns a
\* Logger and a nil error, the Logger writes to the console only, and no file
\* or directory is created.
C2_NilConfigNeverFails ==
  (last.n > 0 /\ last.config.nil) =>
    /\ last.err = ""
    /\ last.logger # 0
    /\ loggers[last.logger].out = <<Stdout>>
    /\ dirs = last.dirs0
    /\ DOMAIN files = last.files0

IsConfigError(e) == e = ErrFilename
IsFilesystemError(e) == e \in {ErrGetwd, ErrMkdir, ErrOpen}

\* C3: construction is all-or-nothing: an empty Filename fails with the
\* ConfigError, a directory-creation or file-open failure with a
\* FilesystemError; a failure returns a nil Logger and a non-nil error, a
\* success a nil error and a Logger with all five writers set.
C3_AllOrNothing ==
  last.n > 0 =>
    LET valid == ~last.config.nil /\ last.config.Filename # <<>>
        path == Join(Wd, last.config.Directory, last.config.Filename)
    IN  /\ (~last.config.nil /\ last.config.Filename = <<>>) => IsConfigError(last.err)
        /\ (valid /\ last.env = "mkdir fails" /\ Dir(path) \notin last.dirs0) =>
             IsFilesystemError(last.err)
        /\ (valid /\ last.env = "open fails") => IsFilesystemError(last.err)
        /\ (last.err # "") <=> (last.logger = 0)
        /\ last.logger # 0 =>
             /\ last.logger = Len(loggers)
             /\ DOMAIN loggers[last.logger].prefix = Levels

(* ------------------------- claims about logging ------------------------ *)
CallIds == 1..Len(calls)
CallLogger(c) == loggers[calls[c].lg]
InFlight(c) == \E t \in Threads : th[t].pc # "idle" /\ th[t].call = c
Completed(c) == ~InFlight(c)
AllIdle == \A t \in Threads : th[t].pc = "idle"
Count(content, c) == Cardinality({i \in DOMAIN content : content[i].call = c})
Range(content) == {content[i] : i \in DOMAIN content}
\* the log file of a Logger built from a config
FileOf(l) == Join(Wd, l.config.Directory, l.config.Filename)
\* what is in the sinks: the console and every file
Sinks == {console} \cup {files[p] : p \in DOMAIN files}
\* the line a call through a config-built Logger emits: prefix, message, newline
Line(c) == CallLogger(c).prefix[calls[c].lv] \o calls[c].msg \o "\n"

\* C4: with Stdout true, each finished log call has delivered one and the
\* same line, prefix + message + newline, to the console and to the file.
C4_SameLineOnBothSinks ==
  \A c \in CallIds :
    LET l == CallLogger(c)
        chunk == [text |-> Line(c), call |-> c]
    IN  (Built(l) /\ l.config.Stdout /\ Completed(c)) =>
          /\ chunk \in Range(console) /\ Count(console, c) = 1
          /\ chunk \in Range(files[FileOf(l)]) /\ Count(files[FileOf(l)], c) = 1
          /\ (l.config.Include = Loglevel /\ calls[c].lv = "INFO"
              /\ calls[c].msg = "started") => Line(c) = "INFO started\n"

\* a call through the INFO writer of a Loglevel-only, Stdout Logger is done
C4_Witness ==
  \E c \in CallIds :
    /\ Built(CallLogger(c)) /\ CallLogger(c).config.Stdout /\ Completed(c)
    /\ CallLogger(c).config.Include = Loglevel /\ calls[c].lv = "INFO"
    /\ [text |-> "INFO started\n", call |-> c] \in Range(console)

\* C5: with a config and Stdout false, no log call writes to the console;
\* the line goes to the file only.
C5_NoConsoleOutput ==
  \A c \in CallIds :
    LET l == CallLogger(c)
    IN  (Built(l) /\ ~l.config.Stdout) =>
          /\ Count(console, c) = 0
          /\ Completed(c) =>
               /\ [text |-> Line(c), call |-> c] \in Range(files[FileOf(l)])
               /\ Count(files[FileOf(l)], c) = 1

\* two calls through a Stdout-false Logger are done
C5_Witness ==
  /\ Len(calls) = 2 /\ AllIdle
  /\ \A c \in CallIds : Built(CallLogger(c)) /\ ~CallLogger(c).config.Stdout
  /\ console = <<>>

\* the whole line of a call, for either kind of Logger
ExpectedLine(c) ==
  IF Built(CallLogger(c)) THEN Line(c)
  ELSE StdDate(calls[c].at) \o " " \o ClockText(calls[c].at) \o " "
       \o Base(calls[c].site.file) \o ":" \o ToString(calls[c].site.line) \o ": "
       \o calls[c].lv \o " " \o calls[c].msg \o "\n"

\* C7: whatever the threads do, everything a sink holds is the complete line
\* of one log call, written once: no line is split or mixed with another.
C7_WholeLines ==
  \A content \in Sinks : \A i \in DOMAIN content :
    \/ content[i] = OldLine
    \/ /\ content[i].call \in CallIds
       /\ content[i].text = ExpectedLine(content[i].call)
       /\ Count(content, content[i].call) = 1

\* two threads are inside their log calls at once, both lines already on the
\* console and neither yet in the file
C7_Witness ==
  /\ Len(console) = 2
  /\ \A c \in CallIds : InFlight(c)
  /\ calls[console[1].call].thread # calls[console[2].call].thread

\* C8: with DateTime set, every line a severity writer emits carries the
\* time read when that writer's prefix was built during construction, not
\* the time of the log call.
C8_FrozenTimestamp ==
  \A content \in Sinks : \A i \in DOMAIN content :
    LET c == content[i].call
    IN  (c \in CallIds /\ Built(CallLogger(c))
         /\ Has(CallLogger(c).config.Include, DateTime)) =>
          LET l == CallLogger(c)
          IN  content[i].text =
                FormatDateTime(l.read[calls[c].lv]) \o " "
                \o generatePrefix(l.config.Include - DateTime, calls[c].lv,
                                  l.read[calls[c].lv],
                                  PrefixStack(calls[c].lv, l.callers))
                \o calls[c].msg \o "\n"

\* a line was emitted a second or more after its Logger was constructed
C8_Witness ==
  \E i \in DOMAIN console :
    LET c == console[i].call
    IN  /\ Built(CallLogger(c))
        /\ Has(CallLogger(c).config.Include, DateTime)
        /\ calls[c].at > CallLogger(c).read["TRACE"]

\* C9: with ShortFileName or LongFileName set, the file:line segment of every
\* emitted line is the place of the log call that produced it.
C9_CallSiteOfLogCall ==
  \A content \in Sinks : \A i \in DOMAIN content :
    LET c == content[i].call
    IN  (c \in CallIds /\ Built(CallLogger(c))) =>
          LET l == CallLogger(c)
              syn == l.config.Include
              short == Has(syn, ShortFileName)
              long == Has(syn, LongFileName)
              rest == syn - (IF short THEN ShortFileName ELSE 0)
                          - (IF long THEN LongFileName ELSE 0)
          IN  (short \/ long) =>
                content[i].text =
                  generatePrefix(rest, calls[c].lv, l.read[calls[c].lv],
                                 PrefixStack(calls[c].lv, l.callers))
                  \o (IF short THEN Base(calls[c].site.file)
                      ELSE PathString(calls[c].site.file))
                  \o ":" \o ToString(calls[c].site.line) \o " "
                  \o calls[c].msg \o "\n"

\* the calls whose lines a sink holds, in the order it holds them
RECURSIVE Ids(_)
Ids(content) ==
  IF content = <<>> THEN <<>>
  ELSE IF Head(content).call = 0 THEN Ids(Tail(content))
  ELSE <<Head(content).call>> \o Ids(Tail(content))

RECURSIVE IdsOf(_, _)
IdsOf(content, lv) ==
  IF content = <<>> THEN <<>>
  ELSE IF Head(content).call \in CallIds /\ calls[Head(content).call].lv = lv
  THEN <<Head(content).call>> \o IdsOf(Tail(content), lv)
  ELSE IdsOf(Tail(content), lv)

IsPrefix(a, b) == Len(a) <= Len(b) /\ a = SubSeq(b, 1, Len(a))

\* C10 as stated: with Stdout true the console and the file hold the lines
\* in the same order, through whichever writers the threads logged.
C10_SameOrderAnyWriters ==
  \A i \in 1..Len(loggers) :
    (Built(loggers[i]) /\ loggers[i].config.Stdout /\ AllIdle) =>
      Ids(console) = Ids(files[FileOf(loggers[i])])

\* C10 amended: with Stdout true the console and the file hold the lines of
\* each severity writer in the same order; the file never runs ahead.
C10_SameOrderPerWriter ==
  \A i \in 1..Len(loggers) :
    (Built(loggers[i]) /\ loggers[i].config.Stdout) =>
      \A lv \in Levels :
        /\ IsPrefix(IdsOf(files[FileOf(loggers[i])], lv), IdsOf(console, lv))
        /\ AllIdle => IdsOf(console, lv) = IdsOf(files[FileOf(loggers[i])], lv)

\* two threads have logged through the same writer of a Stdout Logger
C10_Witness ==
  /\ AllIdle /\ Len(calls) = 2 /\ Len(console) = 2
  /\ calls[1].lv = calls[2].lv
  /\ calls[1].thread # calls[2].thread
  /\ Built(loggers[1]) /\ loggers[1].config.Stdout

(* ------------------------ claims about the file ------------------------ *)
\* call c has written its line to the file at path p
WrittenTo(c, p) ==
  /\ Built(CallLogger(c)) /\ FileOf(CallLogger(c)) = p
  /\ ~\E t \in Threads : /\ th[t].pc # "idle" /\ th[t].call = c
                         /\ \E k \in DOMAIN th[t].todo : th[t].todo[k].sink = p

\* the lines of the calls c, c+1, ... written to p, in the order of the calls
\* (which, with one logging thread, is the order of the writes)
RECURSIVE Appended(_, _)
Appended(p, c) ==
  IF c > Len(calls) THEN <<>>
  ELSE IF WrittenTo(c, p)
  THEN <<[text |-> ExpectedLine(c), call |-> c]>> \o Appended(p, c + 1)
  ELSE Appended(p, c + 1)

InitContent(p) == IF p \in DOMAIN initFiles THEN initFiles[p] ELSE <<>>

\* C6: a successful NewLogger leaves the log file and its directories in
\* place, creating them when absent; a file is never truncated: it holds what
\* it held before the first construction, then the logged lines in order.
C6_AppendOnly ==
  /\ \A i \in 1..Len(loggers) : Built(loggers[i]) =>
       /\ FileOf(loggers[i]) \in DOMAIN files
       /\ Ancestors(Dir(FileOf(loggers[i]))) \subseteq dirs
  /\ DOMAIN initFiles \subseteq DOMAIN files
  /\ \A p \in DOMAIN files : files[p] = InitContent(p) \o Appended(p, 1)

\* the file held a line before the program ran; two Loggers were built on it
\* and each has appended a line
C6_Witness ==
  /\ initFiles # NoFiles
  /\ Len(loggers) = 2 /\ Built(loggers[1]) /\ Built(loggers[2])
  /\ Len(calls) = 2 /\ calls[1].lg # calls[2].lg
  /\ Len(files[LogPath]) = 3
  /\ files[LogPath][1] = OldLine

====
